---------------------------- MODULE Spec2Model ----------------------------
(***************************************************************************)
(* Solar dashboard: the data functions of app/utils.py (load_country_data, *)
(* load_all_selected_data, get_top_regions_table, generate_timeseries_plot)*)
(* over a backing directory of per-country CSV files, and the dashboard    *)
(* script app/main.py that calls them.                                     *)
(*                                                                         *)
(* Strings the code transforms (country identifiers, country labels) are   *)
(* sequences of one-character strings, so that str.capitalize is computed. *)
(* A mean is kept exactly, as the pair (sum, cnt) of the values it is over;*)
(* cnt = 0 is pandas' NaN.  Floating-point rounding is not modelled.       *)
(***************************************************************************)
EXTENDS Integers, Sequences, FiniteSets, TLC

VARIABLES
    fs,        \* backing source: identifier -> content of <identifier>_clean.csv
    df,        \* the DataFrame the caller holds (last load / combine result)
    fn,        \* the utils function called last ("none" before any call)
    arg,       \* what distinguishes the call: identifiers passed, or the metric
    ret,       \* the value the call returned
    raised,    \* the exception that escaped the call ("none" if it returned)
    st_log,    \* the st.error messages the call emitted, in order
    combined,  \* the load_all_selected_data call made last, or made last in
               \* the run before, and what the same call returned before it
    data_dir,  \* whether the data directory exists
    run        \* main.py: what the last run of the script decided and called

vars == <<fs, df, fn, arg, ret, raised, st_log, combined, data_dir, run>>

---------------------------------------------------------------------------
(* Bounds of the model *)

\* longest identifier sequence passed to load_all_selected_data
MaxSel == 2
\* largest measurement value of a generated record
MaxVal == 1
\* most records of a DataFrame generated for get_top_regions_table
MaxRows == 3
\* most records of a DataFrame generated for generate_timeseries_plot
MaxTsRows == 2
\* number of calendar days the generated timestamps range over
MaxDay == 3

---------------------------------------------------------------------------
(* Strings: str.lower, str.upper, str.capitalize, str.replace(" ", "") *)

LowerLetters ==
    <<"a","b","c","d","e","f","g","h","i","j","k","l","m",
      "n","o","p","q","r","s","t","u","v","w","x","y","z">>

UpperLetters ==
    <<"A","B","C","D","E","F","G","H","I","J","K","L","M",
      "N","O","P","Q","R","S","T","U","V","W","X","Y","Z">>

IndexIn(c, letters) ==
    IF \E i \in DOMAIN letters : letters[i] = c
    THEN CHOOSE i \in DOMAIN letters : letters[i] = c
    ELSE 0

\* the upper-case letter of each lower-case letter, and the converse
UpperOf == [c \in {LowerLetters[i] : i \in DOMAIN LowerLetters} |->
               UpperLetters[IndexIn(c, LowerLetters)]]
LowerOf == [c \in {UpperLetters[i] : i \in DOMAIN UpperLetters} |->
               LowerLetters[IndexIn(c, UpperLetters)]]

\* a character that is not a letter is left as it is
upper_char(c) == IF c \in DOMAIN UpperOf THEN UpperOf[c] ELSE c

lower_char(c) == IF c \in DOMAIN LowerOf THEN LowerOf[c] ELSE c

lower(s) == [i \in DOMAIN s |-> lower_char(s[i])]

\* a wrong capitalize: upper-cases the first character and keeps the rest
capitalize_keeps_rest(s) ==
    [i \in DOMAIN s |-> IF i = 1 THEN upper_char(s[i]) ELSE s[i]]

\* str.capitalize(): first character upper-cased, every other lower-cased
capitalize(s) ==
    [i \in DOMAIN s |-> IF i = 1 THEN upper_char(s[i]) ELSE lower_char(s[i])]

RECURSIVE replace_spaces(_)
replace_spaces(s) ==
    IF s = <<>> THEN <<>>
    ELSE IF Head(s) = " " THEN replace_spaces(Tail(s))
    ELSE <<Head(s)>> \o replace_spaces(Tail(s))

---------------------------------------------------------------------------
(* Countries *)

available_countries_display ==
    << <<"B","e","n","i","n">>,
       <<"S","i","e","r","r","a"," ","L","e","o","n","e">>,
       <<"T","o","g","o">> >>

available_countries_lower ==
    [i \in DOMAIN available_countries_display |->
        replace_spaces(lower(available_countries_display[i]))]

Available == {available_countries_lower[i] : i \in DOMAIN available_countries_lower}

\* an identifier a caller of utils may pass that the dashboard never does
MixedCaseId == <<"t","O","G","O">>

Ids == Available \cup {MixedCaseId}

---------------------------------------------------------------------------
(* Cells, timestamps, DataFrames *)

Num(v) == [t |-> "num", v |-> v]
NaN    == [t |-> "nan", v |-> 0]
Text   == [t |-> "str", v |-> 0]      \* a non-numeric string
Digits(v) == [t |-> "str", v |-> v]   \* the string of a number, unparsed

\* A timestamp is a count of hours; day d, hour h of the day is d * 24 + h.
HoursPerDay == 24
Ts(d, h) == [ok |-> TRUE, t |-> d * HoursPerDay + h]
BadTs    == [ok |-> FALSE, t |-> 0]   \* not a parseable date-time

Range(s) == {s[i] : i \in DOMAIN s}

\* pd.DataFrame(): no columns, no rows
EmptyFrame == [index_dt |-> FALSE, columns |-> <<>>, rows |-> <<>>]

\* DataFrame.empty: some axis has length 0
empty(d) == Len(d.rows) = 0 \/ Len(d.columns) = 0

\* What a call returned: a DataFrame, a summary table, a figure (carrying
\* the series it plots), None, or nothing (before any call, or on a raise).
RetVal(k, d, t, s, title) ==
    [kind |-> k, frame |-> d, table |-> t, series |-> s, title |-> title]
NoValue     == RetVal("novalue", EmptyFrame, <<>>, <<>>, <<>>)
None        == RetVal("None", EmptyFrame, <<>>, <<>>, <<>>)
FrameVal(d) == RetVal("frame", d, <<>>, <<>>, <<>>)
TableVal(t) == RetVal("table", EmptyFrame, t, <<>>, <<>>)
FigVal(s, title) == RetVal("fig", EmptyFrame, <<>>, s, title)

\* What a function did: its return value, the exception that escaped it, and
\* the st.error messages it emitted.
Outcome(r, e, log) == [ret |-> r, raised |-> e, st |-> log]

---------------------------------------------------------------------------
(* The backing source: one CSV file per identifier *)

Absent     == [kind |-> "absent", header |-> <<>>, rows |-> <<>>]
Unreadable == [kind |-> "unreadable", header |-> <<>>, rows |-> <<>>]
Csv(h, r)  == [kind |-> "csv", header |-> h, rows |-> r]

\* one line of a CSV file: its Timestamp cell and its other cells by column
Line(ts, cells) == [ts |-> ts, cells |-> cells]

RECURSIVE without(_, _)
without(s, x) ==
    IF s = <<>> THEN <<>>
    ELSE IF Head(s) = x THEN without(Tail(s), x)
    ELSE <<Head(s)>> \o without(Tail(s), x)

\* read_csv's dtype inference: a column with a non-numeric cell is an object
\* column, whose numeric-looking cells stay strings; a blank cell is NaN.
is_object_column(rows, c) == \E i \in DOMAIN rows : rows[i].cells[c].t = "str"

parse_cell(rows, c, cell) ==
    IF cell.t = "num" /\ is_object_column(rows, c) THEN Digits(cell.v) ELSE cell

\* pd.read_csv(file_path, index_col='Timestamp', parse_dates=True):
\* the exception it raises, or the DataFrame it returns.  The index is a
\* DatetimeIndex only if every Timestamp cell parses.
read_csv(file) ==
    IF file.kind = "absent" THEN [exc |-> "FileNotFoundError", df |-> EmptyFrame]
    ELSE IF file.kind = "unreadable" THEN [exc |-> "PermissionError", df |-> EmptyFrame]
    ELSE IF file.header = <<>> THEN [exc |-> "EmptyDataError", df |-> EmptyFrame]
    ELSE IF "Timestamp" \notin Range(file.header) THEN [exc |-> "ValueError", df |-> EmptyFrame]
    ELSE LET cols == without(file.header, "Timestamp")
         IN  [exc |-> "none",
              df  |-> [index_dt |-> \A i \in DOMAIN file.rows : file.rows[i].ts.ok,
                       columns  |-> cols,
                       rows     |-> [i \in DOMAIN file.rows |->
                                      [ts      |-> file.rows[i].ts,
                                       country |-> <<>>,
                                       cells   |-> [c \in Range(cols) |->
                                                     parse_cell(file.rows, c, file.rows[i].cells[c])]]]]]

\* df['Country'] = label
set_country(d, label) ==
    [index_dt |-> d.index_dt,
     columns  |-> IF "Country" \in Range(d.columns) THEN d.columns
                  ELSE Append(d.columns, "Country"),
     rows     |-> [i \in DOMAIN d.rows |-> [d.rows[i] EXCEPT !.country = label]]]

\* a wrong load_country_data: no handler for what is not FileNotFoundError
load_country_data_lets_escape(files, country_name_lower) ==
    LET r == read_csv(files[country_name_lower])
    IN  IF r.exc = "none"
        THEN Outcome(FrameVal(set_country(r.df, capitalize(country_name_lower))), "none", <<>>)
        ELSE IF r.exc = "FileNotFoundError"
        THEN Outcome(FrameVal(EmptyFrame), "none",
                     << [level |-> "error", what |-> "not found", about |-> capitalize(country_name_lower)] >>)
        ELSE Outcome(NoValue, r.exc, <<>>)

\* a wrong load_country_data: the except clauses return the empty DataFrame
\* without a call of st.error
load_country_data_silent(files, country_name_lower) ==
    LET r == read_csv(files[country_name_lower])
    IN  IF r.exc = "none"
        THEN Outcome(FrameVal(set_country(r.df, capitalize(country_name_lower))), "none", <<>>)
        ELSE Outcome(FrameVal(EmptyFrame), "none", <<>>)

\* load_country_data(country_name_lower)
load_country_data(files, country_name_lower) ==
    LET r == read_csv(files[country_name_lower])
    IN  IF r.exc = "none"
        THEN Outcome(FrameVal(set_country(r.df, capitalize(country_name_lower))), "none", <<>>)
        ELSE IF r.exc = "FileNotFoundError"
        THEN Outcome(FrameVal(EmptyFrame), "none",
                     << [level |-> "error", what |-> "not found", about |-> capitalize(country_name_lower)] >>)
        ELSE Outcome(FrameVal(EmptyFrame), "none",
                     << [level |-> "error", what |-> r.exc, about |-> country_name_lower] >>)

---------------------------------------------------------------------------
(* pd.concat and load_all_selected_data *)

\* columns of the concatenation: union, in order of first appearance
RECURSIVE union_columns(_, _)
union_columns(acc, cols) ==
    IF cols = <<>> THEN acc
    ELSE IF Head(cols) \in Range(acc) THEN union_columns(acc, Tail(cols))
    ELSE union_columns(Append(acc, Head(cols)), Tail(cols))

RECURSIVE concat_columns(_)
concat_columns(dfs) ==
    IF dfs = <<>> THEN <<>>
    ELSE union_columns(concat_columns(SubSeq(dfs, 1, Len(dfs) - 1)), dfs[Len(dfs)].columns)

\* a row reindexed to the columns cols: NaN where it has no such column
reindex_row(row, cols) ==
    [ts      |-> row.ts,
     country |-> row.country,
     cells   |-> [c \in Range(cols) \ {"Country"} |->
                    IF c \in DOMAIN row.cells THEN row.cells[c] ELSE NaN]]

RECURSIVE concat_rows(_, _)
concat_rows(dfs, cols) ==
    IF dfs = <<>> THEN <<>>
    ELSE [i \in DOMAIN Head(dfs).rows |-> reindex_row(Head(dfs).rows[i], cols)]
         \o concat_rows(Tail(dfs), cols)

\* a wrong concat: drops a row equal to an earlier one (index and values)
RECURSIVE drop_duplicates(_)
drop_duplicates(rows) ==
    IF rows = <<>> THEN <<>>
    ELSE LET init == drop_duplicates(SubSeq(rows, 1, Len(rows) - 1))
             last == rows[Len(rows)]
         IN  IF \E i \in DOMAIN init : init[i] = last THEN init ELSE Append(init, last)

concat_deduplicated(dfs) ==
    LET cols == concat_columns(dfs)
    IN  [index_dt |-> \A i \in DOMAIN dfs : dfs[i].index_dt,
         columns  |-> cols,
         rows     |-> drop_duplicates(concat_rows(dfs, cols))]

\* pd.concat(all_dfs), all_dfs not empty
concat(dfs) ==
    LET cols == concat_columns(dfs)
    IN  [index_dt |-> \A i \in DOMAIN dfs : dfs[i].index_dt,
         columns  |-> cols,
         rows     |-> concat_rows(dfs, cols)]

\* the for loop of load_all_selected_data: all_dfs and the messages so far;
\* an exception escaping a load ends the loop and escapes
RECURSIVE load_loop(_, _, _, _)
load_loop(files, ids, all_dfs, log) ==
    IF ids = <<>> THEN [all_dfs |-> all_dfs, raised |-> "none", st |-> log]
    ELSE LET o == load_country_data(files, Head(ids))
         IN  IF o.raised # "none"
             THEN [all_dfs |-> all_dfs, raised |-> o.raised, st |-> log \o o.st]
             ELSE load_loop(files, Tail(ids),
                            IF ~empty(o.ret.frame) THEN Append(all_dfs, o.ret.frame) ELSE all_dfs,
                            log \o o.st)

\* a wrong load_all_selected_data: gives up when one country does not load
load_all_or_nothing(files, selected_countries_lower) ==
    LET l == load_loop(files, selected_countries_lower, <<>>, <<>>)
    IN  IF l.raised # "none" THEN Outcome(NoValue, l.raised, l.st)
        ELSE IF l.all_dfs = <<>> \/ Len(l.all_dfs) < Len(selected_countries_lower)
        THEN Outcome(FrameVal(EmptyFrame), "none", l.st)
        ELSE Outcome(FrameVal(concat(l.all_dfs)), "none", l.st)

\* a wrong load_all_selected_data: all_dfs is a list of the module, which
\* still holds what the call before returned
load_all_selected_data_accumulating(files, selected_countries_lower) ==
    IF selected_countries_lower = <<>> THEN Outcome(FrameVal(EmptyFrame), "none", <<>>)
    ELSE LET kept == IF combined.called /\ combined.ret.kind = "frame"
                        /\ ~empty(combined.ret.frame)
                     THEN <<combined.ret.frame>> ELSE <<>>
             l    == load_loop(files, selected_countries_lower, kept, <<>>)
         IN  IF l.raised # "none" THEN Outcome(NoValue, l.raised, l.st)
             ELSE IF l.all_dfs = <<>> THEN Outcome(FrameVal(EmptyFrame), "none", l.st)
             ELSE Outcome(FrameVal(concat(l.all_dfs)), "none", l.st)

\* load_all_selected_data(selected_countries_lower)
load_all_selected_data(files, selected_countries_lower) ==
    IF selected_countries_lower = <<>> THEN Outcome(FrameVal(EmptyFrame), "none", <<>>)
    ELSE LET l == load_loop(files, selected_countries_lower, <<>>, <<>>)
         IN  IF l.raised # "none" THEN Outcome(NoValue, l.raised, l.st)
             ELSE IF l.all_dfs = <<>> THEN Outcome(FrameVal(EmptyFrame), "none", l.st)
             ELSE Outcome(FrameVal(concat(l.all_dfs)), "none", l.st)

---------------------------------------------------------------------------
(* get_top_regions_table: groupby, mean, sort_values, Rank *)

\* the mean of nothing (NaN), and the mean of the numeric cells among cells
Mean(sum, cnt) == [sum |-> sum, cnt |-> cnt]

RECURSIVE mean(_)
mean(cells) ==
    IF cells = <<>> THEN Mean(0, 0)
    ELSE LET m == mean(Tail(cells))
         IN  IF Head(cells).t = "num" THEN Mean(m.sum + Head(cells).v, m.cnt + 1) ELSE m

\* the code point order of the characters the labels are made of
CodePoints == <<" ">> \o UpperLetters \o LowerLetters
ord(c) == IndexIn(c, CodePoints)

\* str < str
RECURSIVE str_lt(_, _)
str_lt(a, b) ==
    IF b = <<>> THEN FALSE
    ELSE IF a = <<>> THEN TRUE
    ELSE IF Head(a) # Head(b) THEN ord(Head(a)) < ord(Head(b))
    ELSE str_lt(Tail(a), Tail(b))

\* the group keys of groupby('Country'): the labels present (a row whose
\* Country is missing is in no group), in sorted order
labels(d) == {d.rows[i].country : i \in DOMAIN d.rows} \ {<<>>}

RECURSIVE sorted_keys(_)
sorted_keys(keys) ==
    IF keys = {} THEN <<>>
    ELSE LET k == CHOOSE x \in keys : \A y \in keys \ {x} : str_lt(x, y)
         IN  <<k>> \o sorted_keys(keys \ {k})

RECURSIVE select_cells(_, _, _)
select_cells(rows, label, column) ==
    IF rows = <<>> THEN <<>>
    ELSE (IF Head(rows).country = label THEN <<Head(rows).cells[column]>> ELSE <<>>)
         \o select_cells(Tail(rows), label, column)

\* df_combined.groupby('Country')['GHI'].agg(['mean', ...]).reset_index()
\* (the median and std columns are carried by the code and not modelled)
groupby_mean(d) ==
    LET keys == sorted_keys(labels(d))
    IN  [i \in DOMAIN keys |->
            [Country |-> keys[i], mean |-> mean(select_cells(d.rows, keys[i], "GHI"))]]

\* an object column (one holding a string) cannot be averaged
is_object(d, column) == \E i \in DOMAIN d.rows : d.rows[i].cells[column].t = "str"

\* a wrong sort order: ascending=True
comes_before_ascending(a, b) ==
    \/ a.cnt > 0 /\ b.cnt = 0
    \/ a.cnt > 0 /\ b.cnt > 0 /\ a.sum * b.cnt < b.sum * a.cnt

\* sort_values(by='mean', ascending=False): mean a must come before mean b
\* (a larger mean first, NaN last)
comes_before(a, b) ==
    \/ a.cnt > 0 /\ b.cnt = 0
    \/ a.cnt > 0 /\ b.cnt > 0 /\ a.sum * b.cnt > b.sum * a.cnt

Orderings(n) == {p \in [1..n -> 1..n] : \A i, j \in 1..n : i # j => p[i] # p[j]}

\* sort_values with the default kind='quicksort', which is not a stable sort:
\* every ordering of the rows that respects comes_before can result
sort_values(summary) ==
    {[i \in DOMAIN summary |-> summary[p[i]]] : p \in
        {q \in Orderings(Len(summary)) :
            \A i, j \in DOMAIN summary :
                i < j => ~comes_before(summary[q[j]].mean, summary[q[i]].mean)}}

\* summary['Rank'] = summary.index + 1, after reset_index(drop=True)
with_rank(summary) ==
    [i \in DOMAIN summary |->
        [Rank |-> i, Country |-> summary[i].Country, mean |-> summary[i].mean]]

\* a wrong precondition check: only emptiness is checked
table_guard_empty_only(d) == empty(d)

\* the precondition check of get_top_regions_table
table_guard(d) ==
    empty(d) \/ "GHI" \notin Range(d.columns) \/ "Country" \notin Range(d.columns)

\* get_top_regions_table(df_combined): the outcomes it can have
get_top_regions_table(d) ==
    IF table_guard(d) THEN {Outcome(TableVal(<<>>), "none", <<>>)}
    ELSE IF "GHI" \notin Range(d.columns) \/ "Country" \notin Range(d.columns)
    THEN {Outcome(NoValue, "KeyError", <<>>)}
    ELSE IF is_object(d, "GHI") THEN {Outcome(NoValue, "TypeError", <<>>)}
    ELSE {Outcome(TableVal(with_rank(s)), "none", <<>>) : s \in sort_values(groupby_mean(d))}

---------------------------------------------------------------------------
(* generate_timeseries_plot: resample('D').mean() *)

\* a wrong bucket: the timestamp itself, time of day included
bucket_by_timestamp(ts) == ts.t

\* the calendar day of a timestamp
day_of(ts) == ts.t \div HoursPerDay

Min(S) == CHOOSE x \in S : \A y \in S : x <= y
Max(S) == CHOOSE x \in S : \A y \in S : x >= y

RECURSIVE cells_of_day(_, _, _)
cells_of_day(rows, day, column) ==
    IF rows = <<>> THEN <<>>
    ELSE (IF day_of(Head(rows).ts) = day THEN <<Head(rows).cells[column]>> ELSE <<>>)
         \o cells_of_day(Tail(rows), day, column)

\* df_country[metric].resample('D').mean() on a DatetimeIndex and a numeric
\* column: one row per day from the first day to the last, NaN for a day
\* without a value
resample_mean(d, metric) ==
    LET days  == {day_of(d.rows[i].ts) : i \in DOMAIN d.rows}
        first == Min(days)
    IN  [k \in 1..(Max(days) - first + 1) |->
            [day |-> first + k - 1, mean |-> mean(cells_of_day(d.rows, first + k - 1, metric))]]

\* a wrong precondition check: the metric is not looked up
plot_guard_empty_only(d, metric) == empty(d)

\* the precondition check of generate_timeseries_plot
plot_guard(d, metric) == empty(d) \/ metric \notin Range(d.columns)

\* generate_timeseries_plot(df_country, metric)
generate_timeseries_plot(d, metric) ==
    IF plot_guard(d, metric) THEN Outcome(None, "none", <<>>)
    ELSE IF metric \notin Range(d.columns) THEN Outcome(NoValue, "KeyError", <<>>)
    ELSE LET title == IF "Country" \in Range(d.columns) THEN d.rows[1].country
                      ELSE <<"S","e","l","e","c","t","e","d"," ","C","o","u","n","t","r","y">>
         IN  IF ~d.index_dt \/ metric = "Country" \/ is_object(d, metric)
             THEN Outcome(None, "none",
                          << [level |-> "error", what |-> "TypeError", about |-> <<metric>>] >>)
             ELSE Outcome(FigVal(resample_mean(d, metric), title), "none", <<>>)

---------------------------------------------------------------------------
(* The files the backing directory may hold *)

GoodA ==
    Csv(<<"Timestamp", "GHI", "Tamb">>,
        << Line(Ts(2, 0),  [GHI |-> Num(4), Tamb |-> Num(1)]),
           Line(Ts(1, 12), [GHI |-> Num(2), Tamb |-> NaN]) >>)

GoodB ==
    Csv(<<"Timestamp", "GHI">>,
        << Line(Ts(1, 0), [GHI |-> Num(3)]),
           Line(Ts(1, 0), [GHI |-> Num(3)]),
           Line(Ts(3, 0), [GHI |-> Num(3)]) >>)

NoGhiColumn  == Csv(<<"Timestamp", "Tamb">>, << Line(Ts(1, 0), [Tamb |-> Num(2)]) >>)

NonNumeric ==
    Csv(<<"Timestamp", "GHI">>,
        << Line(Ts(1, 0), [GHI |-> Text]), Line(Ts(1, 12), [GHI |-> Num(1)]) >>)

BadIndex     == Csv(<<"Timestamp", "GHI">>, << Line(BadTs, [GHI |-> Num(1)]) >>)
HeaderOnly   == Csv(<<"Timestamp", "GHI">>, <<>>)
NoTimestampColumn == Csv(<<"GHI">>, << Line(BadTs, [GHI |-> Num(1)]) >>)

Files ==
    {Absent, Unreadable, NoTimestampColumn, HeaderOnly,
     GoodA, GoodB, NoGhiColumn, NonNumeric, BadIndex}

\* What <id>_clean.csv may be.  The first country's file ranges over Files;
\* the others over two of them each, to keep the product small.
FilesOf(id) ==
    IF id = available_countries_lower[1] THEN Files
    ELSE IF id = available_countries_lower[2] THEN {Absent, GoodB}
    ELSE IF id = available_countries_lower[3] THEN {Absent, NoGhiColumn}
    ELSE {GoodA}

Metrics == {"GHI", "Tamb", "NoSuchField"}

RECURSIVE SeqsUpTo(_, _)
SeqsUpTo(S, n) ==
    IF n = 0 THEN {<<>>}
    ELSE LET shorter == SeqsUpTo(S, n - 1)
         IN  shorter \cup {Append(q, x) : q \in shorter, x \in S}

---------------------------------------------------------------------------
(* The calls *)

Args(ids, metric) == [ids |-> ids, metric |-> metric]

\* the identifier sequences passed to load_all_selected_data
Selections == SeqsUpTo(Available, MaxSel)

\* what is remembered of the load_all_selected_data calls: the identifiers
\* and the result of the last one, and, while that call is the current one,
\* whether the call before it had the same identifiers and what it returned
Combined(called, ids, r, again, before) ==
    [called |-> called, ids |-> ids, ret |-> r, again |-> again, before |-> before]

NoCombine == Combined(FALSE, <<>>, NoValue, FALSE, NoValue)

\* a call main.py made: the function, the identifiers or the DataFrame and
\* the metric passed to it, and what it returned
Call(name, ids, d, metric, r) ==
    [fn |-> name, ids |-> ids, df |-> d, metric |-> metric, ret |-> r]

\* what a run of main.py decided and the utils calls it made, in order
Run(ran, selected, ok, loaded, calls) ==
    [ran                         |-> ran,
     selected_countries_display  |-> selected,
     initial_data_check_ok       |-> ok,
     data_load_successful        |-> loaded,
     calls                       |-> calls]

NoRun == Run(FALSE, <<>>, FALSE, FALSE, <<>>)

Init ==
    /\ fs \in {f \in [Ids -> Files] : \A id \in Ids : f[id] \in FilesOf(id)}
    /\ df = EmptyFrame
    /\ fn = "none"
    /\ arg = Args(<<>>, "")
    /\ ret = NoValue
    /\ raised = "none"
    /\ st_log = <<>>
    /\ combined = NoCombine
    /\ data_dir = TRUE
    /\ run = NoRun

\* the caller keeps the DataFrame a load returned
Returned(name, a, o) ==
    /\ fn' = name
    /\ arg' = a
    /\ ret' = o.ret
    /\ raised' = o.raised
    /\ st_log' = o.st

LoadCountryData(id) ==
    LET o == load_country_data(fs, id)
    IN  /\ Returned("load_country_data", Args(<<id>>, ""), o)
        /\ df' = IF o.raised = "none" THEN o.ret.frame ELSE df
        /\ combined' = NoCombine
        /\ UNCHANGED <<fs, data_dir, run>>

LoadAllSelectedData(ids) ==
    LET o     == load_all_selected_data(fs, ids)
        again == combined.called /\ combined.ids = ids
    IN  /\ Returned("load_all_selected_data", Args(ids, ""), o)
        /\ df' = IF o.raised = "none" THEN o.ret.frame ELSE df
        /\ combined' = Combined(TRUE, ids, o.ret, again,
                                IF again THEN combined.ret ELSE NoValue)
        /\ UNCHANGED <<fs, data_dir, run>>

\* the last load_all_selected_data call is no longer the current one
past(c) == Combined(c.called, c.ids, c.ret, FALSE, NoValue)

GetTopRegionsTable ==
    \E o \in get_top_regions_table(df) :
        /\ Returned("get_top_regions_table", Args(<<>>, ""), o)
        /\ combined' = NoCombine
        /\ UNCHANGED <<fs, df, data_dir, run>>

GenerateTimeseriesPlot(metric) ==
    LET o == generate_timeseries_plot(df, metric)
    IN  /\ Returned("generate_timeseries_plot", Args(<<>>, metric), o)
        /\ combined' = NoCombine
        /\ UNCHANGED <<fs, df, data_dir, run>>

\* the script runs again from the top, in the same process: no variable of
\* the last run is kept, the imported utils module is
Rerun ==
    /\ fn # "none"
    /\ df' = EmptyFrame
    /\ fn' = "none"
    /\ arg' = Args(<<>>, "")
    /\ ret' = NoValue
    /\ raised' = "none"
    /\ st_log' = <<>>
    /\ combined' = past(combined)
    /\ run' = NoRun
    /\ UNCHANGED <<fs, data_dir>>

\* the owner of the data directory replaces, adds or removes a file between
\* two runs
WriteFile(id, file) ==
    /\ fn = "none"
    /\ data_dir
    /\ file # fs[id]
    /\ fs' = [fs EXCEPT ![id] = file]
    /\ combined' = NoCombine
    /\ UNCHANGED <<df, fn, arg, ret, raised, st_log, data_dir, run>>

Next ==
    \/ \E id \in Ids : LoadCountryData(id)
    \/ \E ids \in Selections : LoadAllSelectedData(ids)
    \/ GetTopRegionsTable
    \/ \E metric \in Metrics : GenerateTimeseriesPlot(metric)
    \/ Rerun
    \/ \E id \in Ids : \E file \in FilesOf(id) : WriteFile(id, file)

Spec == Init /\ [][Next]_vars

\* load_country_data alone, called directly
NextLoad ==
    \/ \E id \in Ids : LoadCountryData(id)
    \/ Rerun
    \/ \E id \in Ids : \E file \in FilesOf(id) : WriteFile(id, file)

SpecLoad == Init /\ [][NextLoad]_vars

---------------------------------------------------------------------------
(* get_top_regions_table and generate_timeseries_plot on generated inputs *)

Values == {Num(v) : v \in 0..MaxVal} \cup {NaN}

Labels == {capitalize(id) : id \in Available}

Frame(cols, rows) == [index_dt |-> TRUE, columns |-> cols, rows |-> rows]

\* d without the column c
drop(d, c) ==
    [index_dt |-> d.index_dt,
     columns  |-> without(d.columns, c),
     rows     |-> [i \in DOMAIN d.rows |->
                    [ts      |-> d.rows[i].ts,
                     country |-> IF c = "Country" THEN <<>> ELSE d.rows[i].country,
                     cells   |-> [x \in DOMAIN d.rows[i].cells \ {c} |-> d.rows[i].cells[x]]]]]

\* DataFrames of up to MaxRows labelled records with a GHI value
LabelledFrames ==
    {Frame(<<"GHI", "Country">>, rows) :
        rows \in SeqsUpTo({[ts |-> Ts(1, 0), country |-> l, cells |-> [GHI |-> v]] :
                              l \in Labels, v \in Values}, MaxRows)}

\* ... and the same without the GHI column, or without the Country column
TableInputs ==
    LabelledFrames \cup {drop(d, "GHI") : d \in LabelledFrames}
                   \cup {drop(d, "Country") : d \in LabelledFrames}

TimesOfDay == {0, 12}

\* DataFrames of up to MaxTsRows records of one country, in any order of
\* their timestamps, which may repeat and leave days out
SeriesInputs ==
    {Frame(<<"GHI", "Country">>, rows) :
        rows \in SeqsUpTo({[ts |-> Ts(d, h), country |-> capitalize(available_countries_lower[1]),
                            cells |-> [GHI |-> v]] :
                              d \in 1..MaxDay, h \in TimesOfDay, v \in Values}, MaxTsRows)}

InitWith(inputs) ==
    /\ fs = [id \in Ids |-> Absent]
    /\ df \in inputs
    /\ fn = "none"
    /\ arg = Args(<<>>, "")
    /\ ret = NoValue
    /\ raised = "none"
    /\ st_log = <<>>
    /\ combined = NoCombine
    /\ data_dir = TRUE
    /\ run = NoRun

InitSummarize == InitWith(TableInputs)

SpecSummarize == InitSummarize /\ [][GetTopRegionsTable]_vars

InitResample == InitWith(SeriesInputs)

NextResample == \E metric \in Metrics : GenerateTimeseriesPlot(metric)

SpecResample == InitResample /\ [][NextResample]_vars

---------------------------------------------------------------------------
(* main.py: one run of the dashboard script *)

Msg(level, what, about) == [level |-> level, what |-> what, about |-> about]

NoText == <<>>

\* os.path.exists(file_path) for a file of the data directory
os_path_exists(dir, file) == dir /\ file.kind # "absent"

\* the st.warning of each needed file that is missing, in order
RECURSIVE missing_files(_, _, _)
missing_files(dir, files, needed) ==
    IF needed = <<>> THEN <<>>
    ELSE (IF os_path_exists(dir, files[Head(needed)]) THEN <<>>
          ELSE << Msg("warning", "data file missing", Head(needed)) >>)
         \o missing_files(dir, files, Tail(needed))

\* a wrong check_data_files_globally: content with ANY of the needed files
check_any_file(dir, files, country_files_needed_lower) ==
    IF ~dir
    THEN [ok |-> FALSE, st |-> << Msg("error", "data directory not found", NoText) >>]
    ELSE LET warnings == missing_files(dir, files, country_files_needed_lower)
             found    == Len(warnings) < Len(country_files_needed_lower)
         IN  [ok |-> found,
              st |-> warnings \o (IF found THEN <<>>
                                  ELSE << Msg("error", "data files missing", NoText) >>)]

\* check_data_files_globally(data_directory_path, country_files_needed_lower):
\* what it returns and the messages it emits
check_data_files_globally(dir, files, country_files_needed_lower) ==
    IF ~dir
    THEN [ok |-> FALSE, st |-> << Msg("error", "data directory not found", NoText) >>]
    ELSE LET warnings        == missing_files(dir, files, country_files_needed_lower)
             all_files_found == warnings = <<>>
         IN  [ok |-> all_files_found,
              st |-> warnings \o (IF all_files_found THEN <<>>
                                  ELSE << Msg("error", "data files missing", NoText) >>)]

\* what the user can have selected in the multiselect: display names of
\* available countries, none twice, in the order they were picked
DisplaySelections ==
    {sel \in SeqsUpTo(Range(available_countries_display), Len(available_countries_display)) :
        \A i, j \in DOMAIN sel : i # j => sel[i] # sel[j]}

selected_lower(selected_countries_display) ==
    [i \in DOMAIN selected_countries_display |->
        replace_spaces(lower(selected_countries_display[i]))]

BoxTitle ==
    <<"G","H","I"," ","D","i","s","t","r","i","b","u","t","i","o","n"," ",
      "b","y"," ","C","o","u","n","t","r","y">>

BoxVal(d, title) == RetVal("box", d, <<>>, <<>>, title)

\* generate_ghi_boxplot(df_combined, selected_countries_display)
generate_ghi_boxplot(d, selected_countries_display) ==
    IF empty(d) \/ "GHI" \notin Range(d.columns) \/ "Country" \notin Range(d.columns)
    THEN Outcome(None, "none", <<>>)
    ELSE Outcome(BoxVal(d, BoxTitle), "none", <<>>)

metrics_for_ts == <<"GHI", "DNI", "DHI", "Tamb", "RH", "WS">>

in_columns(d, ms) == SelectSeq(ms, LAMBDA m : m \in Range(d.columns))

\* st.selectbox(options=...): the option the user chose, the first one when
\* the user's last choice is not offered
selectbox(options, choice) ==
    IF choice \in Range(options) THEN choice ELSE options[1]

\* a wrong condition for the time series section: any selection will do
more_than_none(selected_countries_display) ==
    Len(selected_countries_display) >= 1

\* len(selected_countries_display) == 1
single_country(selected_countries_display) ==
    Len(selected_countries_display) = 1

\* How far a run of the script has come: its flags, df_combined, the calls
\* made, the exception that ended it, the messages shown, the metric chosen
Script(ok, loaded, d, calls, exc, log, metric) ==
    [initial_data_check_ok |-> ok, data_load_successful |-> loaded,
     df_combined |-> d, calls |-> calls, raised |-> exc, st |-> log,
     selected_metric |-> metric]

\* the time series section
time_series_section(r, selected_countries_display, choice) ==
    IF single_country(selected_countries_display)
    THEN LET country_df_for_ts        == r.df_combined
             available_metrics_for_ts == in_columns(country_df_for_ts, metrics_for_ts)
         IN  IF available_metrics_for_ts # <<>>
             THEN LET selected_metric == selectbox(available_metrics_for_ts, choice)
                      o == generate_timeseries_plot(country_df_for_ts, selected_metric)
                  IN  Script(r.initial_data_check_ok, r.data_load_successful, r.df_combined,
                             Append(r.calls,
                                    Call("generate_timeseries_plot", <<>>,
                                         country_df_for_ts, selected_metric, o.ret)),
                             o.raised, r.st \o o.st, selected_metric)
             ELSE r
    ELSE IF Len(selected_countries_display) > 1
    THEN Script(r.initial_data_check_ok, r.data_load_successful, r.df_combined, r.calls,
                r.raised,
                Append(r.st, Msg("info", "select a single country", NoText)),
                r.selected_metric)
    ELSE r

\* the dashboard sections shown when data_load_successful
dashboard_sections(r, selected_countries_display, choice) ==
    LET b    == generate_ghi_boxplot(r.df_combined, selected_countries_display)
        box  == Call("generate_ghi_boxplot", <<>>, r.df_combined, "", b.ret)
    IN  {LET top == Call("get_top_regions_table", <<>>, r.df_combined, "", t.ret)
             upto == Script(r.initial_data_check_ok, r.data_load_successful, r.df_combined,
                            r.calls \o <<box, top>>, t.raised,
                            r.st \o b.st \o t.st, r.selected_metric)
         IN  IF t.raised # "none" THEN upto
             ELSE time_series_section(upto, selected_countries_display, choice)
         : t \in get_top_regions_table(r.df_combined)}

\* the script from the start-up check on: every way a run can end for the
\* selection and the metric choice of the user
main(dir, files, selected_countries_display, choice) ==
    LET check == check_data_files_globally(dir, files, available_countries_lower)
        selected_countries_lower == selected_lower(selected_countries_display)
    IN  IF ~check.ok
        THEN {Script(FALSE, FALSE, EmptyFrame, <<>>, "none",
                     Append(check.st, Msg("warning", "initial data check failed", NoText)),
                     "")}
        ELSE IF selected_countries_lower = <<>>
        THEN {Script(TRUE, FALSE, EmptyFrame, <<>>, "none",
                     Append(check.st, Msg("info", "select a country", NoText)), "")}
        ELSE LET o == load_all_selected_data(files, selected_countries_lower)
                 combine == Call("load_all_selected_data", selected_countries_lower,
                                 EmptyFrame, "", o.ret)
             IN  IF o.raised # "none"
                 THEN {Script(TRUE, FALSE, EmptyFrame, <<combine>>, o.raised,
                              check.st \o o.st, "")}
                 ELSE IF empty(o.ret.frame)
                 THEN {Script(TRUE, FALSE, o.ret.frame, <<combine>>, "none",
                              check.st \o o.st
                                  \o << Msg("error", "failed to load", NoText),
                                        Msg("warning", "no data to display", NoText) >>,
                              "")}
                 ELSE dashboard_sections(
                          Script(TRUE, TRUE, o.ret.frame, <<combine>>, "none",
                                 check.st \o o.st, ""),
                          selected_countries_display, choice)

\* One run of main.py, from its first line to its last or to the exception
\* that ends it.
RunMain(selected_countries_display, choice) ==
    /\ fn = "none"
    /\ \E r \in main(data_dir, fs, selected_countries_display, choice) :
        LET ids   == selected_lower(selected_countries_display)
            again == combined.called /\ combined.ids = ids
        IN  /\ fn' = "main"
            /\ arg' = Args(ids, r.selected_metric)
            /\ ret' = NoValue
            /\ raised' = r.raised
            /\ st_log' = r.st
            /\ df' = r.df_combined
            /\ run' = Run(TRUE, selected_countries_display, r.initial_data_check_ok,
                          r.data_load_successful, r.calls)
            /\ combined' = IF r.calls = <<>> THEN past(combined)
                           ELSE Combined(TRUE, ids, r.calls[1].ret, again,
                                         IF again THEN combined.ret ELSE NoValue)
    /\ UNCHANGED <<fs, data_dir>>

\* the owner of the data directory removes it, with the files in it, or
\* creates it anew
RemoveDataDir ==
    /\ fn = "none"
    /\ data_dir
    /\ data_dir' = FALSE
    /\ fs' = [id \in Ids |-> Absent]
    /\ combined' = NoCombine
    /\ UNCHANGED <<df, fn, arg, ret, raised, st_log, run>>

MakeDataDir ==
    /\ fn = "none"
    /\ ~data_dir
    /\ data_dir' = TRUE
    /\ UNCHANGED <<fs, df, fn, arg, ret, raised, st_log, combined, run>>

InitMain ==
    /\ data_dir \in BOOLEAN
    /\ fs \in {f \in [Ids -> Files] :
                 \A id \in Ids : f[id] \in (IF data_dir THEN FilesOf(id) ELSE {Absent})}
    /\ df = EmptyFrame
    /\ fn = "none"
    /\ arg = Args(<<>>, "")
    /\ ret = NoValue
    /\ raised = "none"
    /\ st_log = <<>>
    /\ combined = NoCombine
    /\ run = NoRun

NextMain ==
    \/ \E sel \in DisplaySelections : \E choice \in Range(metrics_for_ts) :
           RunMain(sel, choice)
    \/ Rerun
    \/ \E id \in Available : \E file \in FilesOf(id) : WriteFile(id, file)
    \/ RemoveDataDir
    \/ MakeDataDir

SpecMain == InitMain /\ [][NextMain]_vars


---------------------------------------------------------------------------
(* Claims about load_country_data and load_all_selected_data *)

\* the file a load_country_data call read (files do not change during a run)
FileRead == fs[arg.ids[1]]

\* the source is absent, unreadable, or malformed so that it cannot be
\* parsed into a table indexed by Timestamp
SourceFails(file) ==
    \/ file.kind \in {"absent", "unreadable"}
    \/ file.kind = "csv" /\ "Timestamp" \notin Range(file.header)

\* the source parses and holds at least one row
SourceHasRows(file) ==
    file.kind = "csv" /\ "Timestamp" \in Range(file.header) /\ Len(file.rows) >= 1

\* C1: when the backing source of the identifier is absent, unreadable or
\* malformed (no Timestamp column), load_country_data returns an empty
\* DataFrame and no exception escapes it.
C1_FailedLoadIsEmpty ==
    (fn = "load_country_data" /\ SourceFails(FileRead))
        => (raised = "none" /\ ret.kind = "frame" /\ empty(ret.frame))

C1_Witness ==
    /\ fn = "load_country_data"
    /\ FileRead = NoTimestampColumn
    /\ raised = "none"
    /\ empty(ret.frame)

\* what load returns for the identifier at position i of the call's argument
LoadedAt(i) == load_country_data(fs, arg.ids[i]).ret.frame

Loads == {i \in DOMAIN arg.ids : ~empty(LoadedAt(i))}

\* row r of a country's DataFrame is row q of the result: same timestamp and
\* label, and the same value in every field r has
SameRecord(r, q) ==
    /\ q.ts = r.ts
    /\ q.country = r.country
    /\ DOMAIN r.cells \subseteq DOMAIN q.cells
    /\ \A c \in DOMAIN r.cells : q.cells[c] = r.cells[c]

\* C2: if at least one identifier loads, load_all_selected_data returns a
\* non-empty DataFrame that holds the records of every identifier that
\* loaded and none of an identifier that did not; if the sequence is empty
\* or no identifier loads, the result is empty.  No exception escapes.
C2_PartialFailureTolerated ==
    fn = "load_all_selected_data" =>
        /\ raised = "none"
        /\ ret.kind = "frame"
        /\ Loads # {} =>
            /\ ~empty(ret.frame)
            /\ \A i \in Loads : \A k \in DOMAIN LoadedAt(i).rows :
                  \E j \in DOMAIN ret.frame.rows :
                      SameRecord(LoadedAt(i).rows[k], ret.frame.rows[j])
            /\ \A j \in DOMAIN ret.frame.rows :
                  \E i \in Loads : ret.frame.rows[j].country = capitalize(arg.ids[i])
        /\ Loads = {} => empty(ret.frame)

C2_Witness ==
    /\ fn = "load_all_selected_data"
    /\ Len(arg.ids) = 2
    /\ Cardinality(Loads) = 1
    /\ ~empty(ret.frame)

\* the records of the identifiers from position i on, in order
RECURSIVE RecordsFrom(_)
RecordsFrom(i) ==
    IF i > Len(arg.ids) THEN <<>>
    ELSE (IF i \in Loads THEN LoadedAt(i).rows ELSE <<>>) \o RecordsFrom(i + 1)

\* C3: the result of load_all_selected_data is the concatenation, in the
\* order of the identifiers, of the non-empty DataFrames loaded: record k of
\* the result is record k of that concatenation, with its timestamp, label
\* and field values unchanged; nothing is added, dropped or re-ordered.
C3_ConcatenationInOrder ==
    fn = "load_all_selected_data" =>
        /\ ret.kind = "frame"
        /\ Len(ret.frame.rows) = Len(RecordsFrom(1))
        /\ \A k \in DOMAIN ret.frame.rows : SameRecord(RecordsFrom(1)[k], ret.frame.rows[k])

C3_Witness ==
    /\ fn = "load_all_selected_data"
    /\ Cardinality(Loads) = 2
    /\ arg.ids[1] # arg.ids[2]
    /\ LoadedAt(1).columns # LoadedAt(2).columns
    /\ Len(ret.frame.rows) >= 3
    /\ ret.frame.rows[2].ts.t < ret.frame.rows[1].ts.t

IsUpper(c) == IndexIn(c, UpperLetters) # 0
IsLower(c) == IndexIn(c, LowerLetters) # 0

\* label is identifier with its first letter upper-case and the rest lower-case
IsCapitalized(label, identifier) ==
    /\ Len(label) = Len(identifier)
    /\ \A i \in DOMAIN label :
        /\ lower_char(label[i]) = lower_char(identifier[i])
        /\ i = 1 => ~IsLower(label[i])
        /\ i > 1 => ~IsUpper(label[i])

\* C4: for a non-empty identifier whose source is well-formed and holds at
\* least one row, load_country_data returns a non-empty DataFrame every
\* record of which carries the capitalized identifier as its country label.
C4_LabelIsCapitalizedIdentifier ==
    (fn = "load_country_data" /\ arg.ids[1] # <<>> /\ SourceHasRows(FileRead))
        => /\ raised = "none"
           /\ ret.kind = "frame"
           /\ ~empty(ret.frame)
           /\ "Country" \in Range(ret.frame.columns)
           /\ \A k \in DOMAIN ret.frame.rows :
                 IsCapitalized(ret.frame.rows[k].country, arg.ids[1])

C4_Witness ==
    /\ fn = "load_country_data"
    /\ arg.ids[1] = MixedCaseId
    /\ Len(ret.frame.rows) = 2
    /\ ret.frame.rows[1].country = <<"T","o","g","o">>


---------------------------------------------------------------------------
(* Claims about get_top_regions_table *)

HasBothFields(d) == "GHI" \in Range(d.columns) /\ "Country" \in Range(d.columns)

\* every GHI value is a number or missing
NumericGhi(d) == \A i \in DOMAIN d.rows : d.rows[i].cells["GHI"].t \in {"num", "nan"}

Defined(m) == m.cnt > 0
GreaterOrEqual(a, b) == Defined(a) /\ Defined(b) /\ a.sum * b.cnt >= b.sum * a.cnt
EqualMeans(a, b)     == Defined(a) /\ Defined(b) /\ a.sum * b.cnt = b.sum * a.cnt

\* the GHI values of the records labelled l, and their sum and number
GhiOf(d, l) == {i \in DOMAIN d.rows : d.rows[i].country = l /\ d.rows[i].cells["GHI"].t = "num"}

RECURSIVE SumOver(_, _)
SumOver(d, S) ==
    IF S = {} THEN 0
    ELSE LET i == CHOOSE x \in S : TRUE
         IN  d.rows[i].cells["GHI"].v + SumOver(d, S \ {i})

\* one row per distinct label, each with the mean of its label's GHI values,
\* and ranks 1, 2, ..., N in row order
OneRowPerLabelRanked(d, table) ==
    /\ Len(table) = Cardinality(labels(d))
    /\ \A l \in labels(d) : \E i \in DOMAIN table :
          /\ table[i].Country = l
          /\ table[i].mean.cnt = Cardinality(GhiOf(d, l))
          /\ table[i].mean.sum = SumOver(d, GhiOf(d, l))
    /\ \A i \in DOMAIN table : table[i].Rank = i

SummarizedSummable ==
    /\ fn = "get_top_regions_table"
    /\ ~empty(df)
    /\ HasBothFields(df)
    /\ NumericGhi(df)

\* C5 as stated: one row per distinct label, ranks 1..N, and each row's mean
\* greater than or equal to the mean of the row after it.
C5_AsStated ==
    SummarizedSummable =>
        /\ raised = "none"
        /\ ret.kind = "table"
        /\ OneRowPerLabelRanked(df, ret.table)
        /\ \A i \in 1..(Len(ret.table) - 1) :
              GreaterOrEqual(ret.table[i].mean, ret.table[i + 1].mean)

\* C5, amended: one row per distinct label, ranks 1..N in row order; the
\* rows whose mean is defined are in descending order of mean, and every
\* row whose mean is undefined (a label with no GHI value) comes after them.
C5_RankedByDescendingMean ==
    SummarizedSummable =>
        /\ raised = "none"
        /\ ret.kind = "table"
        /\ OneRowPerLabelRanked(df, ret.table)
        /\ \A i \in 1..(Len(ret.table) - 1) :
              \/ GreaterOrEqual(ret.table[i].mean, ret.table[i + 1].mean)
              \/ ~Defined(ret.table[i + 1].mean)

C5_Witness ==
    /\ SummarizedSummable
    /\ Len(ret.table) = 3
    /\ ret.table[1].Country # <<"B","e","n","i","n">>
    /\ GreaterOrEqual(ret.table[1].mean, ret.table[2].mean)
    /\ ~EqualMeans(ret.table[1].mean, ret.table[2].mean)
    /\ ~Defined(ret.table[3].mean)

\* C8: get_top_regions_table returns an empty table, and raises nothing,
\* when its input is empty, or lacks the GHI field, or lacks the Country field.
C8_SummarizePrecondition ==
    (fn = "get_top_regions_table" /\ (empty(df) \/ ~HasBothFields(df)))
        => (raised = "none" /\ ret.kind = "table" /\ ret.table = <<>>)

C8_Witness ==
    /\ fn = "get_top_regions_table"
    /\ ~empty(df)
    /\ "GHI" \in Range(df.columns)
    /\ "Country" \notin Range(df.columns)
    /\ ret.kind = "table"
    /\ ret.table = <<>>

\* the place of label l in the order in which groupby produced the groups
GroupPosition(d, l) ==
    CHOOSE i \in DOMAIN groupby_mean(d) : groupby_mean(d)[i].Country = l

---------------------------------------------------------------------------
(* Claims about generate_timeseries_plot *)

CalendarDay(ts) == ts.t \div HoursPerDay

\* the records of calendar day day, and those of them with a value
RecordsOn(d, day) == {i \in DOMAIN d.rows : CalendarDay(d.rows[i].ts) = day}
ValuesOn(d, day)  == {i \in RecordsOn(d, day) : d.rows[i].cells["GHI"].t = "num"}

Resampled ==
    /\ fn = "generate_timeseries_plot"
    /\ arg.metric = "GHI"
    /\ ~empty(df)
    /\ "GHI" \in Range(df.columns)
    /\ df.index_dt
    /\ NumericGhi(df)

\* C6: the daily series is in ascending order of day; every calendar day
\* with a record has exactly one row, whose value is the arithmetic mean of
\* the field over the records of that day (whatever their time of day,
\* their order, and whether timestamps repeat; a record without a value
\* adds nothing to the mean); a day without a record has no row or a row
\* with the missing marker.
C6_DailyMean ==
    Resampled =>
        /\ raised = "none"
        /\ ret.kind = "fig"
        /\ \A i \in 1..(Len(ret.series) - 1) : ret.series[i].day < ret.series[i + 1].day
        /\ \A k \in DOMAIN df.rows :
              \E i \in DOMAIN ret.series : ret.series[i].day = CalendarDay(df.rows[k].ts)
        /\ \A i \in DOMAIN ret.series :
              /\ ret.series[i].mean.cnt = Cardinality(ValuesOn(df, ret.series[i].day))
              /\ ret.series[i].mean.sum = SumOver(df, ValuesOn(df, ret.series[i].day))
              /\ RecordsOn(df, ret.series[i].day) = {} => ~Defined(ret.series[i].mean)

C6_Witness ==
    /\ Resampled
    /\ Len(df.rows) = 2
    /\ df.rows[2].ts.t < df.rows[1].ts.t
    /\ CalendarDay(df.rows[1].ts) = CalendarDay(df.rows[2].ts)
    /\ df.rows[1].cells["GHI"] # df.rows[2].cells["GHI"]
    /\ Len(ret.series) = 1
    /\ ret.series[1].mean = Mean(1, 2)

\* C9: generate_timeseries_plot returns None, and raises nothing, when its
\* input is empty or the metric is not one of its columns.
C9_ResamplePrecondition ==
    (fn = "generate_timeseries_plot" /\ (empty(df) \/ arg.metric \notin Range(df.columns)))
        => (raised = "none" /\ ret = None)

C9_Witness ==
    /\ fn = "generate_timeseries_plot"
    /\ ~empty(df)
    /\ arg.metric = "NoSuchField"
    /\ ret = None

---------------------------------------------------------------------------
(* Claims about all four functions *)

\* C7: no exception escapes load_country_data, load_all_selected_data,
\* get_top_regions_table or generate_timeseries_plot, whatever the files hold.
C7_NoExceptionEscapes == fn # "none" => raised = "none"

---------------------------------------------------------------------------
(* Claims about repeated calls and about what a load leaves behind *)

---------------------------------------------------------------------------
(* Claims about the dashboard script main.py *)

\* the calls of the function name that the run made
CallsOf(name) == {i \in DOMAIN run.calls : run.calls[i].fn = name}

\* the data directory exists and holds the file of every available country
AllFilesPresent ==
    data_dir /\ \A c \in Available : fs[c].kind # "absent"

labels_in(d) == {d.rows[k].country : k \in DOMAIN d.rows}

\* C14: in a run of main.py, generate_ghi_boxplot and get_top_regions_table
\* are called only after load_all_selected_data returned a non-empty
\* DataFrame, and on that DataFrame; generate_timeseries_plot is called
\* only when, in addition, exactly one country is selected, and then the
\* DataFrame passed to it holds records of the selected country's label
\* only and the metric passed is one of its columns.
C14_SectionsAfterNonEmptyCombine ==
    fn = "main" =>
        \A i \in DOMAIN run.calls :
            LET c == run.calls[i]
            IN  /\ c.fn # "load_all_selected_data" =>
                       /\ i > 1
                       /\ run.calls[1].fn = "load_all_selected_data"
                       /\ run.calls[1].ret.kind = "frame"
                       /\ ~empty(run.calls[1].ret.frame)
                       /\ c.df = run.calls[1].ret.frame
                       /\ run.data_load_successful
                /\ c.fn = "generate_timeseries_plot" =>
                       /\ Len(run.selected_countries_display) = 1
                       /\ labels_in(c.df) = {capitalize(arg.ids[1])}
                       /\ c.metric \in Range(c.df.columns)

\* a run with Benin alone selected has drawn the daily means of Tamb
C14_Witness ==
    /\ fn = "main"
    /\ run.data_load_successful
    /\ \E i \in CallsOf("generate_timeseries_plot") :
           /\ run.calls[i].metric = "Tamb"
           /\ run.calls[i].ret.kind = "fig"
           /\ CallsOf("get_top_regions_table") # {}
           /\ CallsOf("generate_ghi_boxplot") # {}

===========================================================================
